---- MODULE Spec2Model ----
(***************************************************************************)
(* A model of the dev-events data layer: the cached database connection    *)
(* (connectToDatabase), the Event record (slugify, normalizeTime, schema   *)
(* and pre-save hook) and the Booking record (schema and pre-save hook).   *)
(*                                                                         *)
(* Strings are sequences of one-character strings, so that trimming,       *)
(* lower-casing, regular-expression matching and formatting are computed   *)
(* character by character as the code computes them.                       *)
(***************************************************************************)
EXTENDS Integers, Sequences, FiniteSets, TLC

VARIABLES
    arg,        \* argument handed to the pure function under test
    ret,        \* its result, Pending before the call
    cached,     \* the connection cache: [conn, promise]
    promises,   \* state of every promise mongoose.connect has returned
    callers,    \* each connectToDatabase() caller: [pc, path, awaits, result, calls, stale]
    events,     \* the persisted Event collection: id -> stored record or Absent
    doc,        \* the in-memory Event document being edited, or NoDoc
    lastSave,   \* outcome of the last Event save()
    bookings,   \* the persisted Booking collection: a sequence of records
    bsave       \* each Booking save(): [pc, email, eventId, error, seen, dangling]

vars == <<arg, ret, cached, promises, callers, events, doc, lastSave, bookings, bsave>>

connVars == <<cached, promises, callers>>
pureVars == <<arg, ret>>
dbVars == <<events, doc, lastSave, bookings, bsave>>

----------------------------------------------------------------------------
(* Characters and strings *)

Null == <<"NULL">>            \* JavaScript null
Undefined == <<"UNDEFINED">>  \* a missing attribute
Pending == <<"PENDING">>

DigitSeq == <<"0", "1", "2", "3", "4", "5", "6", "7", "8", "9">>
LowerSeq == <<"a", "b", "c", "d", "e", "f", "g", "h", "i", "j", "k", "l", "m",
              "n", "o", "p", "q", "r", "s", "t", "u", "v", "w", "x", "y", "z">>
UpperSeq == <<"A", "B", "C", "D", "E", "F", "G", "H", "I", "J", "K", "L", "M",
              "N", "O", "P", "Q", "R", "S", "T", "U", "V", "W", "X", "Y", "Z">>

Range(s) == {s[i] : i \in DOMAIN s}

IsDigit(c) == c \in Range(DigitSeq)
IsLower(c) == c \in Range(LowerSeq)
IsSpace(c) == c \in {" ", "\t", "\n"}

DigitVal(c) == (CHOOSE i \in DOMAIN DigitSeq : DigitSeq[i] = c) - 1

\* String.prototype.toLowerCase
ToLowerChar(c) ==
    IF c \in Range(UpperSeq)
    THEN LowerSeq[CHOOSE i \in DOMAIN UpperSeq : UpperSeq[i] = c]
    ELSE c

ToLowerCase(s) == [i \in DOMAIN s |-> ToLowerChar(s[i])]

\* String.prototype.trim
Trim(s) ==
    LET keep == {i \in DOMAIN s : ~IsSpace(s[i])}
    IN  IF keep = {} THEN <<>>
        ELSE SubSeq(s, CHOOSE i \in keep : \A j \in keep : i <= j,
                       CHOOSE i \in keep : \A j \in keep : i >= j)

\* parseInt(digits, 10)
RECURSIVE ParseInt(_)
ParseInt(s) ==
    IF s = <<>> THEN 0
    ELSE 10 * ParseInt(SubSeq(s, 1, Len(s) - 1)) + DigitVal(s[Len(s)])

\* n.toString().padStart(w, '0') for n >= 0
RECURSIVE NatToStr(_)
NatToStr(n) ==
    IF n < 10 THEN <<DigitSeq[n + 1]>>
    ELSE NatToStr(n \div 10) \o <<DigitSeq[(n % 10) + 1]>>

RECURSIVE PadStart(_, _)
PadStart(s, w) == IF Len(s) >= w THEN s ELSE PadStart(<<"0">> \o s, w)

----------------------------------------------------------------------------
(* slugify: event.model.ts *)

IsSlugChar(c) == IsLower(c) \/ IsDigit(c)

\* .replace(/[^a-z0-9]+/g, '-'): every maximal run of other characters
\* becomes one dash
RECURSIVE ReplaceRuns(_)
ReplaceRuns(s) ==
    IF s = <<>> THEN <<>>
    ELSE IF IsSlugChar(s[1]) THEN <<s[1]>> \o ReplaceRuns(Tail(s))
    ELSE LET stop == {i \in DOMAIN s : IsSlugChar(s[i])}
         IN  IF stop = {} THEN <<"-">>
             ELSE <<"-">> \o ReplaceRuns(SubSeq(s,
                        CHOOSE i \in stop : \A j \in stop : i <= j, Len(s)))

\* a plausible slip: the '+' of the pattern left out, one dash per character
ReplaceEachChar(s) == [i \in DOMAIN s |-> IF IsSlugChar(s[i]) THEN s[i] ELSE "-"]

\* .replace(/^-+|-+$/g, ''): leading and trailing dashes removed
StripDashes(s) ==
    LET keep == {i \in DOMAIN s : s[i] # "-"}
    IN  IF keep = {} THEN <<>>
        ELSE SubSeq(s, CHOOSE i \in keep : \A j \in keep : i <= j,
                       CHOOSE i \in keep : \A j \in keep : i >= j)

slugifyNoPlus(value) == StripDashes(ReplaceEachChar(ToLowerCase(Trim(value))))

slugify(value) == StripDashes(ReplaceRuns(ToLowerCase(Trim(value))))

----------------------------------------------------------------------------
(* normalizeTime: event.model.ts *)

\* timeRegex = /^(\d{1,2})(?::(\d{2}))?\s*(am|pm)?$/i applied to s.
\* The result is [ok, h, m, p]: the groups, <<>> for a group that took no part.
SkipSpaces(s, p) ==
    LET rest == {i \in p..Len(s) : ~IsSpace(s[i])}
    IN  IF rest = {} THEN Len(s) + 1
        ELSE CHOOSE i \in rest : \A j \in rest : i <= j

TimeMatch(s) ==
    LET n == Len(s)
        nh == IF n >= 2 /\ IsDigit(s[1]) /\ IsDigit(s[2]) THEN 2
              ELSE IF n >= 1 /\ IsDigit(s[1]) THEN 1 ELSE 0
        hasM == /\ n >= nh + 3
                /\ s[nh + 1] = ":"
                /\ IsDigit(s[nh + 2])
                /\ IsDigit(s[nh + 3])
        pm == IF hasM THEN nh + 4 ELSE nh + 1      \* first index after the minutes
        pp == SkipSpaces(s, pm)                    \* first index after \s*
        tail == SubSeq(s, pp, n)
        per == ToLowerCase(tail)                   \* the i flag
        fail == [ok |-> FALSE, h |-> <<>>, m |-> <<>>, p |-> <<>>]
    IN  IF nh = 0 THEN fail
        ELSE IF per \in {<<>>, <<"a", "m">>, <<"p", "m">>}
        THEN [ok |-> TRUE,
              h |-> SubSeq(s, 1, nh),
              m |-> IF hasM THEN SubSeq(s, nh + 2, nh + 3) ELSE <<>>,
              p |-> tail]
        ELSE fail

FormatTime(hours, minutes) ==
    PadStart(NatToStr(hours), 2) \o <<":">> \o PadStart(NatToStr(minutes), 2)

\* a plausible slip: 12am is not mapped to hour 0
normalizeTimeNoMidnight(value) ==
    LET trimmed == ToLowerCase(Trim(value))
        match == TimeMatch(trimmed)
        hours == ParseInt(match.h)
        minutes == IF match.m # <<>> THEN ParseInt(match.m) ELSE 0
        period == match.p
    IN  IF ~match.ok THEN Null
        ELSE IF minutes < 0 \/ minutes > 59 THEN Null
        ELSE IF period # <<>>
        THEN IF hours < 1 \/ hours > 12 THEN Null
             ELSE IF period = <<"p", "m">> /\ hours # 12
                  THEN FormatTime(hours + 12, minutes)
                  ELSE FormatTime(hours, minutes)
        ELSE IF hours < 0 \/ hours > 23 THEN Null
        ELSE FormatTime(hours, minutes)

normalizeTime(value) ==
    LET trimmed == ToLowerCase(Trim(value))
        match == TimeMatch(trimmed)
        hours == ParseInt(match.h)
        minutes == IF match.m # <<>> THEN ParseInt(match.m) ELSE 0
        period == match.p
    IN  IF ~match.ok THEN Null
        ELSE IF minutes < 0 \/ minutes > 59 THEN Null
        ELSE IF period # <<>>
        THEN IF hours < 1 \/ hours > 12 THEN Null
             ELSE IF period = <<"p", "m">> /\ hours # 12
                  THEN FormatTime(hours + 12, minutes)
             ELSE IF period = <<"a", "m">> /\ hours = 12
                  THEN FormatTime(0, minutes)
             ELSE FormatTime(hours, minutes)
        ELSE IF hours < 0 \/ hours > 23 THEN Null
        ELSE FormatTime(hours, minutes)

----------------------------------------------------------------------------
(* Inputs of the pure functions *)

MaxTitleLen == 4
MaxTimeLen == 4

SeqsUpTo(A, n) == UNION {[1..k -> A] : k \in 0..n}

HelloWorld == <<"H", "e", "l", "l", "o", ",", " ", "W", "o", "r", "l", "d", "!">>
FooBar == <<" ", " ", "-", "-", "-", "F", "o", "o", " ", "B", "a", "r", "-", "-", "-", " ", " ">>

TitleInputs ==
    SeqsUpTo({"a", "B", "1", "-", " ", "!"}, MaxTitleLen) \cup {HelloWorld, FooBar}

HourStrs ==
    {<<d>> : d \in Range(DigitSeq)}
        \cup {<<t, d>> : t \in {"0", "1", "2", "9"}, d \in Range(DigitSeq)}
MinuteStrs ==
    {<<>>} \cup {<<":", t, d>> : t \in {"0", "3", "5", "6", "9"}, d \in {"0", "9"}}
GapStrs == {<<>>, <<" ">>, <<" ", "\t">>}
PeriodStrs == {<<>>, <<"a", "m">>, <<"p", "m">>, <<"A", "M">>, <<"P", "m">>}
WrapStrs == {<<<<>>, <<>>>>, <<<<" ">>, <<>>>>, <<<<>>, <<" ">>>>}

TimeInputs ==
    {w[1] \o h \o m \o g \o p \o w[2] :
        h \in HourStrs, m \in MinuteStrs, g \in GapStrs, p \in PeriodStrs, w \in WrapStrs}
    \cup SeqsUpTo({"1", ":", "a", "m", " ", "x"}, MaxTimeLen)

----------------------------------------------------------------------------
(* Initial values of the three components *)

NoDoc == [present |-> FALSE]
NoSave == [done |-> FALSE, ok |-> TRUE, error |-> "none", before |-> NoDoc,
           after |-> NoDoc]

InitPureIdle == arg = <<>> /\ ret = Pending

----------------------------------------------------------------------------
(* connectToDatabase: the connection cache *)

MaxCallers == 3
MaxCalls == 2

Callers == 1..MaxCallers

IdleCaller == [pc |-> "idle", path |-> "none", awaits |-> 0, result |-> 0,
               calls |-> 0, stale |-> FALSE]

InitConn ==
    /\ cached = [conn |-> 0, promise |-> 0]     \* { conn: null, promise: null }
    /\ promises = <<>>
    /\ callers = [c \in Callers |-> IdleCaller]

CanCall(c) == callers[c].pc # "awaiting" /\ callers[c].calls < MaxCalls

\* a plausible slip: the in-flight promise is not looked at, every call that
\* finds no connection starts its own attempt
ConnectCallNoReuse(c) ==
    /\ CanCall(c)
    /\ IF cached.conn # 0
       THEN /\ callers' = [callers EXCEPT ![c] =
                    [pc |-> "returned", path |-> "cached", awaits |-> 0,
                     result |-> cached.conn, calls |-> @.calls + 1, stale |-> FALSE]]
            /\ UNCHANGED <<cached, promises>>
       ELSE /\ promises' = Append(promises, "pending")
            /\ cached' = [cached EXCEPT !.promise = Len(promises) + 1]
            /\ callers' = [callers EXCEPT ![c] =
                    [pc |-> "awaiting", path |-> "created",
                     awaits |-> Len(promises) + 1, result |-> 0,
                     calls |-> @.calls + 1, stale |-> FALSE]]
    /\ UNCHANGED <<pureVars, dbVars>>

\* connectToDatabase() up to its await: return the cached connection, or
\* start mongoose.connect when no promise is cached, then await the promise
ConnectCall(c) ==
    /\ CanCall(c)
    /\ IF cached.conn # 0
       THEN /\ callers' = [callers EXCEPT ![c] =
                    [pc |-> "returned", path |-> "cached", awaits |-> 0,
                     result |-> cached.conn, calls |-> @.calls + 1, stale |-> FALSE]]
            /\ UNCHANGED <<cached, promises>>
       ELSE IF cached.promise = 0
       THEN /\ promises' = Append(promises, "pending")
            /\ cached' = [cached EXCEPT !.promise = Len(promises) + 1]
            /\ callers' = [callers EXCEPT ![c] =
                    [pc |-> "awaiting", path |-> "created",
                     awaits |-> Len(promises) + 1, result |-> 0,
                     calls |-> @.calls + 1, stale |-> FALSE]]
       ELSE /\ callers' = [callers EXCEPT ![c] =
                    [pc |-> "awaiting", path |-> "joined",
                     awaits |-> cached.promise, result |-> 0,
                     calls |-> @.calls + 1,
                     stale |-> promises[cached.promise] = "rejected"]]
            /\ UNCHANGED <<cached, promises>>
    /\ UNCHANGED <<pureVars, dbVars>>

\* mongoose.connect settles: the attempt succeeds or fails
ConnectSettles(p, outcome) ==
    /\ promises[p] = "pending"
    /\ promises' = [promises EXCEPT ![p] = outcome]
    /\ UNCHANGED <<cached, callers, pureVars, dbVars>>

\* connectToDatabase() after its await: cache the connection and return it,
\* or throw the promise's rejection
ConnectResume(c) ==
    /\ callers[c].pc = "awaiting"
    /\ promises[callers[c].awaits] # "pending"
    /\ IF promises[callers[c].awaits] = "fulfilled"
       THEN /\ cached' = [cached EXCEPT !.conn = callers[c].awaits]
            /\ callers' = [callers EXCEPT ![c].pc = "returned",
                                          ![c].result = callers[c].awaits]
       ELSE /\ callers' = [callers EXCEPT ![c].pc = "threw"]
            /\ UNCHANGED cached
    /\ UNCHANGED <<promises, pureVars, dbVars>>

----------------------------------------------------------------------------
(* Dates: new Date(value) and toISOString().split('T')[0] *)

IsLeap(y) == (y % 4 = 0 /\ y % 100 # 0) \/ y % 400 = 0

DaysInMonth(y, m) ==
    IF m = 2 THEN (IF IsLeap(y) THEN 29 ELSE 28)
    ELSE IF m \in {4, 6, 9, 11} THEN 30 ELSE 31

AllDigits(s) == \A i \in DOMAIN s : IsDigit(s[i])

\* The largest year a Date holds whole (the time value ends in +275760-09)
MaxDateYear == 275759

NaN == [valid |-> FALSE, y |-> 0, m |-> 0, d |-> 0]

\* new Date(value) for the date-only forms of the ECMAScript date-time string
\* format: YYYY-MM-DD, and the expanded years +YYYYYY-MM-DD and -YYYYYY-MM-DD.
\* Both are read as UTC midnight. Every other string of the model's inputs
\* is one no engine parses, and gives an invalid Date (NaN).
DateParse(s) ==
    LET signed == Len(s) = 13 /\ s[1] \in {"+", "-"}
        plain == Len(s) = 10
        yl == IF signed THEN 6 ELSE 4
        o == IF signed THEN 1 ELSE 0
        shaped == /\ signed \/ plain
                  /\ AllDigits(SubSeq(s, o + 1, o + yl))
                  /\ s[o + yl + 1] = "-"
                  /\ AllDigits(SubSeq(s, o + yl + 2, o + yl + 3))
                  /\ s[o + yl + 4] = "-"
                  /\ AllDigits(SubSeq(s, o + yl + 5, o + yl + 6))
        yv == ParseInt(SubSeq(s, o + 1, o + yl))
        y == IF signed /\ s[1] = "-" THEN 0 - yv ELSE yv
        m == ParseInt(SubSeq(s, o + yl + 2, o + yl + 3))
        d == ParseInt(SubSeq(s, o + yl + 5, o + yl + 6))
    IN  IF ~shaped THEN NaN
        ELSE IF signed /\ s[1] = "-" /\ yv = 0 THEN NaN     \* -000000 is no year
        ELSE IF yv > MaxDateYear THEN NaN
        ELSE IF m < 1 \/ m > 12 \/ d < 1 \/ d > DaysInMonth(y, m) THEN NaN
        ELSE [valid |-> TRUE, y |-> y, m |-> m, d |-> d]

\* parsedDate.toISOString().split('T')[0]: a four-digit year from 0 to 9999,
\* a sign and six digits otherwise
ToISODate(t) ==
    LET year == IF t.y >= 0 /\ t.y <= 9999
                THEN PadStart(NatToStr(t.y), 4)
                ELSE <<IF t.y < 0 THEN "-" ELSE "+">>
                        \o PadStart(NatToStr(IF t.y < 0 THEN 0 - t.y ELSE t.y), 6)
    IN  year \o <<"-">> \o PadStart(NatToStr(t.m), 2)
             \o <<"-">> \o PadStart(NatToStr(t.d), 2)

----------------------------------------------------------------------------
(* The Event schema and its pre-save hook: event.model.ts *)

requiredStringFields ==
    <<"title", "description", "overview", "image", "venue", "location",
      "date", "time", "mode", "audience", "organizer">>

\* the schema paths declared with trim: true
TrimPaths ==
    {"title", "description", "overview", "image", "venue", "location",
     "mode", "audience", "organizer"}

StringPaths == Range(requiredStringFields) \cup {"slug"}

\* the setter of a string path, run when the path is assigned
ApplySetter(path, value) ==
    IF value # Undefined /\ path \in TrimPaths THEN Trim(value) ELSE value

\* the schema's own validation (required: true, and the validate entries of
\* agenda and tags); mongoose runs it before the hooks registered with
\* pre('save'). The result is the set of failing paths.
SchemaErrors(d) ==
    {q \in StringPaths : d.f[q] = Undefined \/ d.f[q] = <<>>}
        \cup (IF Len(d.agenda) > 0 THEN {} ELSE {"agenda"})
        \cup (IF Len(d.tags) > 0 THEN {} ELSE {"tags"})

FieldError(field) ==
    [kind |-> "Error",
     msg |-> "Field \"" \o field \o "\" is required and cannot be empty.",
     paths |-> {}]
PlainError(text) == [kind |-> "Error", msg |-> text, paths |-> {}]
ValidationError(failing) ==
    [kind |-> "ValidationError", msg |-> "Event validation failed", paths |-> failing]
DuplicateKeyError ==
    [kind |-> "MongoServerError", msg |-> "E11000 duplicate key error", paths |-> {"slug"}]
NoError == [kind |-> "none", msg |-> "", paths |-> {}]

IsBlank(value) == value = Undefined \/ Trim(value) = <<>>

\* assignment to a path inside the hook: the path is marked modified when
\* the value changes
Assign(d, path, value) ==
    IF d.f[path] = value THEN d
    ELSE [d EXCEPT !.f[path] = value, !.modified = @ \cup {path}]

IsModified(d, path) == path \in d.modified

\* the body of eventSchema.pre('save'): [error, doc], the document as the
\* hook leaves it
HookFields(d) ==
    LET bad == {i \in DOMAIN requiredStringFields : IsBlank(d.f[requiredStringFields[i]])}
    IN  IF bad = {} THEN NoError
        ELSE FieldError(requiredStringFields[CHOOSE i \in bad : \A j \in bad : i <= j])

HookLists(d) ==
    IF Len(d.agenda) = 0 THEN PlainError("Agenda must contain at least one item.")
    ELSE IF Len(d.tags) = 0 THEN PlainError("Tags must contain at least one item.")
    ELSE NoError

HookSlug(d) ==
    IF d.isNew \/ IsModified(d, "title")
    THEN Assign(d, "slug", slugify(d.f["title"]))
    ELSE d

HookDateParsed(d, parsedDate) ==
    IF ~parsedDate.valid
    THEN [error |-> PlainError("Invalid date format. Expected a valid date string."),
          doc |-> d]
    ELSE [error |-> NoError, doc |-> Assign(d, "date", ToISODate(parsedDate))]

HookDate(d) ==
    IF d.isNew \/ IsModified(d, "date")
    THEN HookDateParsed(d, DateParse(d.f["date"]))
    ELSE [error |-> NoError, doc |-> d]

HookTimeNormalized(d, normalizedTime) ==
    IF normalizedTime = Null
    THEN [error |-> PlainError("Invalid time format. Expected a valid time (e.g., \"13:30\" or \"1:30 pm\")."),
          doc |-> d]
    ELSE [error |-> NoError, doc |-> Assign(d, "time", normalizedTime)]

HookTime(d) ==
    IF d.isNew \/ IsModified(d, "time")
    THEN HookTimeNormalized(d, normalizeTime(d.f["time"]))
    ELSE [error |-> NoError, doc |-> d]

\* the hook from the slug on, given the outcome of its two validation loops
HookNormalize(afterDate) ==
    IF afterDate.error # NoError THEN afterDate ELSE HookTime(afterDate.doc)

HookChecked(d, fieldError, listError) ==
    IF fieldError # NoError THEN [error |-> fieldError, doc |-> d]
    ELSE IF listError # NoError THEN [error |-> listError, doc |-> d]
    ELSE HookNormalize(HookDate(HookSlug(d)))

EventPreSave(d) == HookChecked(d, HookFields(d), HookLists(d))

----------------------------------------------------------------------------
(* Event documents and the Event collection *)

MaxEvents == 2
MaxMods == 1

EventIds == 1..MaxEvents

Absent == [state |-> "absent"]      \* an id no document has been given yet
Deleted == [state |-> "deleted"]    \* the document of this id was deleted

Exists(store, e) == store[e].state = "stored"

NewDoc(id, attrs) ==
    [present |-> TRUE, id |-> id, isNew |-> TRUE, modified |-> {}, mods |-> 0,
     f |-> [q \in StringPaths |-> ApplySetter(q, attrs.f[q])],
     agenda |-> attrs.agenda, tags |-> attrs.tags]

Hydrate(id, stored) ==
    [present |-> TRUE, id |-> id, isNew |-> FALSE, modified |-> {}, mods |-> 0,
     f |-> stored.f, agenda |-> stored.agenda, tags |-> stored.tags]

\* the unique index on slug: another stored Event already has this slug
SlugTaken(store, d) ==
    \E e \in DOMAIN store :
        e # d.id /\ Exists(store, e) /\ store[e].f["slug"] = d.f["slug"]

\* the write of save(): insertOne for a new document, updateOne with the
\* modified paths otherwise
StoredAfter(store, d) ==
    IF d.isNew
    THEN [state |-> "stored", f |-> d.f, agenda |-> d.agenda, tags |-> d.tags]
    ELSE [state |-> "stored",
          f |-> [q \in StringPaths |->
                    IF q \in d.modified THEN d.f[q] ELSE store[d.id].f[q]],
          agenda |-> IF "agenda" \in d.modified THEN d.agenda ELSE store[d.id].agenda,
          tags |-> IF "tags" \in d.modified THEN d.tags ELSE store[d.id].tags]

DocumentNotFoundError ==
    [kind |-> "DocumentNotFoundError", msg |-> "No document found for query", paths |-> {}]

EventWrite(store, d) ==
    IF ~d.isNew /\ d.modified = {}
    THEN [ok |-> TRUE, error |-> NoError, doc |-> d, events |-> store]
    ELSE IF ~d.isNew /\ ~Exists(store, d.id)
    THEN [ok |-> FALSE, error |-> DocumentNotFoundError, doc |-> d, events |-> store]
    ELSE IF (d.isNew \/ "slug" \in d.modified) /\ SlugTaken(store, d)
    THEN [ok |-> FALSE, error |-> DuplicateKeyError, doc |-> d, events |-> store]
    ELSE [ok |-> TRUE, error |-> NoError,
          doc |-> [d EXCEPT !.isNew = FALSE, !.modified = {}],
          events |-> [store EXCEPT ![d.id] = StoredAfter(store, d)]]

SaveRejected(failing, d, store) ==
    [ok |-> FALSE, error |-> ValidationError(failing), doc |-> d, events |-> store]

\* a plausible slip: the document is written although the hook reported an error
SaveHookedWritesOnError(hook, store) ==
    IF hook.error # NoError
    THEN [ok |-> FALSE, error |-> hook.error, doc |-> hook.doc,
          events |-> EventWrite(store, hook.doc).events]
    ELSE EventWrite(store, hook.doc)

EventSaveWritesOnError(d, store) ==
    IF SchemaErrors(d) # {} THEN SaveRejected(SchemaErrors(d), d, store)
    ELSE SaveHookedWritesOnError(EventPreSave(d), store)

\* the hook has run: next(error) ends the save, next() lets the write go on
SaveHooked(hook, store) ==
    IF hook.error # NoError
    THEN [ok |-> FALSE, error |-> hook.error, doc |-> hook.doc, events |-> store]
    ELSE EventWrite(store, hook.doc)

\* document.save(): schema validation, then the pre-save hook, then the write
EventSave(d, store) ==
    IF SchemaErrors(d) # {} THEN SaveRejected(SchemaErrors(d), d, store)
    ELSE SaveHooked(EventPreSave(d), store)

\* the outcome r of saving document d reaches the collection and the caller
SaveOutcome(d, r) ==
    /\ events' = r.events
    /\ lastSave' = [done |-> TRUE, ok |-> r.ok, error |-> r.error,
                    before |-> d, after |-> r.doc]

FreshIds == {e \in EventIds : events[e] = Absent /\ (doc.present => doc.id # e)}

\* new Event(attrs)
NewEvent(attrs) ==
    /\ FreshIds # {}
    /\ doc' = NewDoc(CHOOSE e \in FreshIds : \A o \in FreshIds : e <= o, attrs)
    /\ lastSave' = NoSave
    /\ UNCHANGED <<events, bookings, bsave, pureVars, connVars>>

\* Event.findById(e)
LoadEvent(e) ==
    /\ Exists(events, e)
    /\ doc' = Hydrate(e, events[e])
    /\ lastSave' = NoSave
    /\ UNCHANGED <<events, bookings, bsave, pureVars, connVars>>

\* doc[path] = value, for a string path
SetField(path, value) ==
    /\ doc.present
    /\ doc.mods < MaxMods
    /\ doc' = [Assign(doc, path, ApplySetter(path, value)) EXCEPT !.mods = @ + 1]
    /\ lastSave' = NoSave
    /\ UNCHANGED <<events, bookings, bsave, pureVars, connVars>>

\* doc.agenda = list
SetAgenda(list) ==
    /\ doc.present
    /\ doc.mods < MaxMods
    /\ doc' = IF doc.agenda = list THEN [doc EXCEPT !.mods = @ + 1]
              ELSE [doc EXCEPT !.agenda = list, !.modified = @ \cup {"agenda"},
                               !.mods = @ + 1]
    /\ lastSave' = NoSave
    /\ UNCHANGED <<events, bookings, bsave, pureVars, connVars>>

\* doc.save()
SaveEvent ==
    /\ doc.present
    /\ SaveOutcome(doc, EventSave(doc, events))
    /\ doc' = lastSave'.after
    /\ UNCHANGED <<bookings, bsave, pureVars, connVars>>

----------------------------------------------------------------------------
(* Inputs of the Event operations *)

Str(c) == <<c>>
TitleA == <<"A", " ", "b">>                 \* slug a-b
TitleB == <<" ", "a", "-", "b", "!">>       \* slug a-b as well
Blank == <<" ">>
SlugZ == <<"z", "z">>
DatePlain == <<"2", "0", "2", "4", "-", "0", "1", "-", "0", "5">>
DateLong == <<"+", "0", "0", "2", "0", "2", "4", "-", "0", "1", "-", "0", "5">>
DateFar == <<"+", "0", "2", "0", "0", "0", "0", "-", "0", "1", "-", "0", "1">>
DateBad == <<"b", "a", "d">>
TimeHalf == <<"1", ":", "3", "0", " ", "p", "m">>
TimeOne == <<"1", "p", "m">>
TimeBad == <<"2", "5", ":", "0", "0">>

BaseAttrs ==
    [f |-> [q \in StringPaths |->
                CASE q = "title" -> TitleA
                  [] q = "slug" -> SlugZ
                  [] q = "date" -> DatePlain
                  [] q = "time" -> TimeHalf
                  [] OTHER -> Str("x")],
     agenda |-> <<"talk">>, tags |-> <<"dev">>]

\* one attribute set to another value: <<path, value>>
FieldChoices ==
    {<<"title", TitleB>>, <<"title", Blank>>, <<"slug", Undefined>>,
     <<"mode", Undefined>>, <<"mode", <<>>>>,
     <<"date", Blank>>, <<"date", DateBad>>, <<"date", DateFar>>, <<"date", DateLong>>,
     <<"time", Blank>>, <<"time", TimeBad>>, <<"time", TimeOne>>}
        \cup {<<q, Blank>> : q \in TrimPaths \ {"title"}}
ListChoices == {<<"agenda", <<>>>>, <<"tags", <<>>>>}

With(attrs, c) ==
    IF c[1] = "agenda" THEN [attrs EXCEPT !.agenda = c[2]]
    ELSE IF c[1] = "tags" THEN [attrs EXCEPT !.tags = c[2]]
    ELSE [attrs EXCEPT !.f[c[1]] = c[2]]

AttrChoices == FieldChoices \cup ListChoices

EventInputs ==
    {BaseAttrs} \cup {With(BaseAttrs, c) : c \in AttrChoices}
        \cup {With(With(BaseAttrs, c), k) : c \in AttrChoices, k \in AttrChoices}

SetChoices ==
    {<<"title", TitleB>>, <<"title", Blank>>, <<"slug", SlugZ>>,
     <<"date", DateFar>>, <<"date", DateBad>>, <<"time", TimeOne>>,
     <<"time", TimeBad>>, <<"venue", Blank>>}

InitDbIdle ==
    /\ events = [e \in EventIds |-> Absent]
    /\ doc = NoDoc
    /\ lastSave = NoSave

NextEvent ==
    \/ \E attrs \in EventInputs : NewEvent(attrs)
    \/ \E e \in EventIds : LoadEvent(e)
    \/ \E c \in SetChoices : SetField(c[1], c[2])
    \/ \E list \in {<<>>, <<"talk">>} : SetAgenda(list)
    \/ SaveEvent

----------------------------------------------------------------------------
(* The Booking schema and its pre-save hook: booking.model.ts *)

MaxBookings == 2

BookingIds == 1..MaxBookings

NoEventId == 0      \* a Booking built without eventId

IsLocalChar(c) == ~IsSpace(c) /\ c # "@"

\* emailRegex = /^[^\s@]+@[^\s@]+\.[^\s@]+$/
EmailMatch(s) ==
    \E a \in DOMAIN s, k \in DOMAIN s :
        /\ 1 < a /\ a + 1 < k /\ k < Len(s)
        /\ s[a] = "@"
        /\ s[k] = "."
        /\ \A i \in 1..(a - 1) : IsLocalChar(s[i])
        /\ \A i \in (a + 1)..(k - 1) : IsLocalChar(s[i])
        /\ \A i \in (k + 1)..Len(s) : IsLocalChar(s[i])

\* the setters of email: trim: true, lowercase: true
EmailSetter(value) == IF value = Undefined THEN value ELSE ToLowerCase(Trim(value))

\* the schema's own validation: email and eventId are required
BookingSchemaErrors(email, eventId) ==
    (IF email = Undefined \/ email = <<>> THEN {"email"} ELSE {})
        \cup (IF eventId = NoEventId THEN {"eventId"} ELSE {})

IdleSave == [pc |-> "idle", email |-> Undefined, eventId |-> NoEventId,
             error |-> NoError, seen |-> "none", dangling |-> FALSE]

InitBookings ==
    /\ bookings = [b \in BookingIds |-> Absent]
    /\ bsave = [b \in BookingIds |-> IdleSave]

\* new Booking({ eventId, email }).save(), up to the await of Event.exists
BookingSaveBegin(b, rawEmail, eventId) ==
    /\ bsave[b].pc = "idle"
    /\ LET email == EmailSetter(rawEmail)
           failing == BookingSchemaErrors(email, eventId)
           error == IF failing # {}
                    THEN [ValidationError(failing) EXCEPT !.msg = "Booking validation failed"]
                    ELSE IF email = Undefined \/ email = <<>> \/ ~EmailMatch(email)
                    THEN PlainError("A valid email address is required.")
                    ELSE IF eventId = NoEventId
                    THEN PlainError("eventId is required.")
                    ELSE NoError
       IN  bsave' = [bsave EXCEPT ![b] =
                [pc |-> IF error = NoError THEN "checking" ELSE "failed",
                 email |-> email, eventId |-> eventId, error |-> error,
                 seen |-> "none", dangling |-> FALSE]]
    /\ lastSave' = NoSave
    /\ UNCHANGED <<events, doc, bookings, pureVars, connVars>>

\* a plausible slip: the result of Event.exists is not looked at
BookingExistsCheckIgnored(b) ==
    /\ bsave[b].pc = "checking"
    /\ bsave' = [bsave EXCEPT
            ![b].seen = IF Exists(events, bsave[b].eventId) THEN "yes" ELSE "no",
            ![b].pc = "writing"]
    /\ lastSave' = NoSave
    /\ UNCHANGED <<events, doc, bookings, pureVars, connVars>>

\* Event.exists({ _id: this.eventId }) answers, and the hook goes on:
\* next(error) when no such Event is stored, next() otherwise
BookingExistsCheck(b) ==
    /\ bsave[b].pc = "checking"
    /\ LET eventExists == Exists(events, bsave[b].eventId)
       IN  bsave' = [bsave EXCEPT
                ![b].seen = IF Exists(events, bsave[b].eventId) THEN "yes" ELSE "no",
                ![b].pc = IF ~eventExists THEN "failed" ELSE "writing",
                ![b].error = IF ~eventExists
                             THEN PlainError("Referenced event does not exist.")
                             ELSE NoError]
    /\ lastSave' = NoSave
    /\ UNCHANGED <<events, doc, bookings, pureVars, connVars>>

\* Event.exists rejects: the catch block hands the error to next
BookingExistsFails(b) ==
    /\ bsave[b].pc = "checking"
    /\ bsave' = [bsave EXCEPT ![b].pc = "failed",
                              ![b].error = PlainError("query failed")]
    /\ lastSave' = NoSave
    /\ UNCHANGED <<events, doc, bookings, pureVars, connVars>>

\* a variant in which the write is refused once the Event is gone
BookingWriteGuarded(b) ==
    /\ bsave[b].pc = "writing"
    /\ Exists(events, bsave[b].eventId)
    /\ bookings' = [bookings EXCEPT ![b] =
            [state |-> "stored", eventId |-> bsave[b].eventId, email |-> bsave[b].email]]
    /\ bsave' = [bsave EXCEPT ![b].pc = "saved",
                              ![b].dangling = ~Exists(events, bsave[b].eventId)]
    /\ lastSave' = NoSave
    /\ UNCHANGED <<events, doc, pureVars, connVars>>

\* after next(): the insert of the Booking, with no further look at the Event
BookingWrite(b) ==
    /\ bsave[b].pc = "writing"
    /\ bookings' = [bookings EXCEPT ![b] =
            [state |-> "stored", eventId |-> bsave[b].eventId, email |-> bsave[b].email]]
    /\ bsave' = [bsave EXCEPT ![b].pc = "saved",
                              ![b].dangling = ~Exists(events, bsave[b].eventId)]
    /\ lastSave' = NoSave
    /\ UNCHANGED <<events, doc, pureVars, connVars>>

----------------------------------------------------------------------------
(* Operations of the callers on the Event collection *)

SaveDocument(d) == SaveOutcome(d, EventSave(d, events))

\* Event.create(attrs): new Event(attrs) and save() in one call
CreateEvent(attrs) ==
    /\ FreshIds # {}
    /\ SaveDocument(NewDoc(CHOOSE e \in FreshIds : \A o \in FreshIds : e <= o, attrs))
    /\ UNCHANGED <<doc, bookings, bsave, pureVars, connVars>>

\* findById(e), one assignment, save()
UpdateEvent(e, c) ==
    /\ Exists(events, e)
    /\ SaveDocument(Assign(Hydrate(e, events[e]), c[1], ApplySetter(c[1], c[2])))
    /\ UNCHANGED <<doc, bookings, bsave, pureVars, connVars>>

\* the caller deletes an Event
DeleteEvent(e) ==
    /\ Exists(events, e)
    /\ events' = [events EXCEPT ![e] = Deleted]
    /\ lastSave' = NoSave
    /\ UNCHANGED <<doc, bookings, bsave, pureVars, connVars>>

EmailGood == <<" ", "A", "@", "b", ".", "C">>
EmailNoAt == <<"a", "b", ".", "c">>

DbEventInputs ==
    {BaseAttrs,
     With(BaseAttrs, <<"title", Blank>>),
     With(With(BaseAttrs, <<"date", DateLong>>), <<"time", TimeBad>>)}

DbSetChoices == {<<"time", TimeOne>>, <<"time", TimeBad>>, <<"venue", Blank>>}

BookingEmails == {EmailGood, EmailNoAt}

\* the Event the bookings are made for, or none
BookingTargets == {NoEventId, 1}

NextDb ==
    \/ \E attrs \in DbEventInputs : CreateEvent(attrs)
    \/ \E e \in EventIds, c \in DbSetChoices : UpdateEvent(e, c)
    \/ \E e \in EventIds : DeleteEvent(e)
    \/ \E b \in BookingIds, email \in BookingEmails,
          eventId \in BookingTargets : BookingSaveBegin(b, email, eventId)
    \/ \E b \in BookingIds : BookingExistsCheck(b)
    \/ \E b \in BookingIds : BookingExistsFails(b)
    \/ \E b \in BookingIds : BookingWrite(b)

----------------------------------------------------------------------------
(* Specification of slugify alone *)

CallSlugify ==
    /\ ret = Pending
    /\ ret' = slugify(arg)
    /\ UNCHANGED <<arg, connVars, dbVars>>

----------------------------------------------------------------------------
(* Specification of normalizeTime alone *)

CallNormalizeTime ==
    /\ ret = Pending
    /\ ret' = normalizeTime(arg)
    /\ UNCHANGED <<arg, connVars, dbVars>>

----------------------------------------------------------------------------
(* Specifications *)

InitSlug ==
    /\ arg \in TitleInputs
    /\ ret = Pending
    /\ InitConn
    /\ InitDbIdle
    /\ InitBookings

SpecSlug == InitSlug /\ [][CallSlugify]_vars

InitTime ==
    /\ arg \in TimeInputs
    /\ ret = Pending
    /\ InitConn
    /\ InitDbIdle
    /\ InitBookings

SpecTime == InitTime /\ [][CallNormalizeTime]_vars

NextConn ==
    \/ \E c \in Callers : ConnectCall(c)
    \/ \E p \in DOMAIN promises, outcome \in {"fulfilled", "rejected"} :
            ConnectSettles(p, outcome)
    \/ \E c \in Callers : ConnectResume(c)

InitConnSpec ==
    /\ InitPureIdle
    /\ InitConn
    /\ InitDbIdle
    /\ InitBookings

SpecConn == InitConnSpec /\ [][NextConn]_vars

SpecEvent == InitConnSpec /\ [][NextEvent]_vars

SpecDb == InitConnSpec /\ [][NextDb]_vars

----------------------------------------------------------------------------
(* Claims about the connection cache, checked under SpecConn *)

NoFailure == \A p \in DOMAIN promises : promises[p] # "rejected"

\* C1: as long as no connection attempt fails, any number of
\* connectToDatabase() calls in any interleaving make exactly one
\* mongoose.connect attempt: a call that finds the promise in flight awaits
\* that promise, a call that finds the cached connection returns it, and
\* every caller gets the one connection.
C1_SingleAttempt ==
    NoFailure =>
        /\ Len(promises) <= 1
        /\ (\E c \in Callers : callers[c].calls > 0) => Len(promises) = 1
        /\ \A c \in Callers :
            /\ callers[c].pc = "awaiting" => callers[c].awaits = cached.promise
            /\ callers[c].pc = "returned" =>
                    callers[c].result = 1 /\ cached.conn = 1
            /\ callers[c].pc # "threw"

\* one caller started the attempt, one joined it in flight, one was answered
\* from the cache, and all three have returned
C1_Witness ==
    /\ NoFailure
    /\ \E a, b, c \in Callers :
        /\ callers[a].pc = "returned" /\ callers[a].path = "created"
        /\ callers[b].pc = "returned" /\ callers[b].path = "joined"
        /\ callers[c].pc = "returned" /\ callers[c].path = "cached"

\* C2: a failed attempt's rejection reaches every caller awaiting it, and the
\* failure is not cached: once the rejection has been delivered the cache
\* holds no rejected promise, and no later call is answered with the old
\* rejection.
C2_FailureNotCached ==
    /\ \A c \in Callers :
        (callers[c].pc = "returned" /\ callers[c].path # "cached")
            => promises[callers[c].awaits] = "fulfilled"
    /\ (\E c \in Callers : callers[c].pc = "threw")
            => (cached.promise = 0 \/ promises[cached.promise] # "rejected")
    /\ \A c \in Callers : ~callers[c].stale

----------------------------------------------------------------------------
(* Claims about slugify, checked under SpecSlug *)

SlugPositions(s) == {i \in DOMAIN s : IsSlugChar(s[i])}

\* the k-th position of s that holds a letter or a digit
NthSlugPosition(s, k) ==
    CHOOSE i \in SlugPositions(s) :
        Cardinality({j \in SlugPositions(s) : j <= i}) = k

\* C8: slugify(title) holds only a-z, 0-9 and '-', never two dashes in a
\* row, no dash at either end; its letters and digits are those of the
\* lower-cased title in order, and two neighbours among them are separated
\* by exactly one dash when other characters stood between them in the title
\* and by nothing otherwise.
C8_SlugShape ==
    ret # Pending =>
        LET low == ToLowerCase(arg)
            n == Cardinality(SlugPositions(low))
        IN  /\ \A i \in DOMAIN ret : IsSlugChar(ret[i]) \/ ret[i] = "-"
            /\ \A i \in 1..(Len(ret) - 1) : ~(ret[i] = "-" /\ ret[i + 1] = "-")
            /\ ret # <<>> => ret[1] # "-" /\ ret[Len(ret)] # "-"
            /\ Cardinality(SlugPositions(ret)) = n
            /\ n = 0 => ret = <<>>
            /\ \A k \in 1..n :
                    ret[NthSlugPosition(ret, k)] = low[NthSlugPosition(low, k)]
            /\ \A k \in 1..(n - 1) :
                    NthSlugPosition(ret, k + 1) - NthSlugPosition(ret, k) =
                        IF NthSlugPosition(low, k + 1) - NthSlugPosition(low, k) > 1
                        THEN 2 ELSE 1

\* the two titles of the specification's examples, slugified
C8_Witness ==
    \/ /\ arg = HelloWorld
       /\ ret = <<"h", "e", "l", "l", "o", "-", "w", "o", "r", "l", "d">>
    \/ /\ arg = FooBar
       /\ ret = <<"f", "o", "o", "-", "b", "a", "r">>

----------------------------------------------------------------------------
(* Claims about normalizeTime, checked under SpecTime *)

\* s is an hour of nh digits, a minute part of nm characters (':' and two
\* digits, or nothing), whitespace, and a period of np characters (am or pm
\* in any case, or nothing)
HasTimeShape(s, nh, nm, np) ==
    /\ Len(s) >= nh + nm + np
    /\ \A i \in 1..nh : IsDigit(s[i])
    /\ nm = 3 => s[nh + 1] = ":" /\ IsDigit(s[nh + 2]) /\ IsDigit(s[nh + 3])
    /\ \A i \in (nh + nm + 1)..(Len(s) - np) : IsSpace(s[i])
    /\ np = 2 => /\ ToLowerChar(s[Len(s) - 1]) \in {"a", "p"}
                 /\ ToLowerChar(s[Len(s)]) = "m"

TimeShapes(s) ==
    {sh \in {1, 2} \X {0, 3} \X {0, 2} : HasTimeShape(s, sh[1], sh[2], sh[3])}

Clock(h, m) ==
    <<DigitSeq[(h \div 10) + 1], DigitSeq[(h % 10) + 1], ":",
      DigitSeq[(m \div 10) + 1], DigitSeq[(m % 10) + 1]>>

\* what the claim says of an input of the shape
TimeOfShape(s, sh) ==
    LET hour == IF sh[1] = 1 THEN DigitVal(s[1])
                ELSE 10 * DigitVal(s[1]) + DigitVal(s[2])
        minute == IF sh[2] = 0 THEN 0
                  ELSE 10 * DigitVal(s[sh[1] + 2]) + DigitVal(s[sh[1] + 3])
        suffix == IF sh[3] = 0 THEN "none"
                  ELSE IF ToLowerChar(s[Len(s) - 1]) = "a" THEN "am" ELSE "pm"
    IN  IF minute > 59 THEN Null
        ELSE IF suffix # "none" /\ (hour < 1 \/ hour > 12) THEN Null
        ELSE IF suffix = "none" /\ hour > 23 THEN Null
        ELSE IF suffix = "am" THEN Clock(IF hour = 12 THEN 0 ELSE hour, minute)
        ELSE IF suffix = "pm" THEN Clock(IF hour = 12 THEN 12 ELSE hour + 12, minute)
        ELSE Clock(hour, minute)

ClaimedTime(s) ==
    IF TimeShapes(s) = {} THEN Null
    ELSE TimeOfShape(s, CHOOSE sh \in TimeShapes(s) : TRUE)

\* C7 as stated: normalizeTime returns what the claim says for every input
\* of the shape hour, optional minute, optional whitespace, optional am/pm,
\* and null for any input not of that shape.
C7_ShapeOfInput == ret # Pending => ret = ClaimedTime(arg)

\* C7 as amended: the shape is that of the input with its leading and
\* trailing whitespace removed; for an input so shaped normalizeTime returns
\* null when the minute is above 59, when a period is present and the hour
\* is outside 1-12, or when no period is present and the hour is above 23,
\* and otherwise HH:MM with 12am as hour 00, 12pm as 12, other pm hours plus
\* 12 and a missing minute as 00; for any other input it returns null.
C7_ShapeOfTrimmedInput == ret # Pending => ret = ClaimedTime(Trim(arg))

\* ' 1:30 pm' with a leading space has been normalized to '13:30'
C7_Witness ==
    /\ arg = <<" ", "1", ":", "3", "0", " ", "p", "m">>
    /\ ret = <<"1", "3", ":", "3", "0">>

----------------------------------------------------------------------------
(* Claims about the Event record, checked under SpecEvent *)

\* C4: every persisted Event's slug equals slugify(its persisted title).
C4_SlugDerivedFromTitle ==
    \A e \in EventIds :
        Exists(events, e) => events[e].f["slug"] = slugify(events[e].f["title"])

IsClockTime(s) ==
    /\ Len(s) = 5
    /\ IsDigit(s[1]) /\ IsDigit(s[2]) /\ s[3] = ":" /\ IsDigit(s[4]) /\ IsDigit(s[5])
    /\ 10 * DigitVal(s[1]) + DigitVal(s[2]) <= 23
    /\ 10 * DigitVal(s[4]) + DigitVal(s[5]) <= 59

IsCalendarDate(s) ==
    /\ Len(s) = 10
    /\ \A i \in {1, 2, 3, 4, 6, 7, 9, 10} : IsDigit(s[i])
    /\ s[5] = "-" /\ s[8] = "-"

\* C5: every persisted Event's time is a zero-padded 24-hour HH:MM string and
\* its date is a YYYY-MM-DD string.
C5_StoredNormalized ==
    \A e \in EventIds :
        Exists(events, e) =>
            IsClockTime(events[e].f["time"]) /\ IsCalendarDate(events[e].f["date"])

\* the error names the field: the hook's message for it, or a validation
\* error that lists its path
NamesField(error, field) ==
    \/ error = FieldError(field)
    \/ error.kind = "ValidationError" /\ field \in error.paths

SaysList(error, path, text) ==
    \/ error = PlainError(text)
    \/ error.kind = "ValidationError" /\ path \in error.paths

BlankFields(d) ==
    {i \in DOMAIN requiredStringFields : IsBlank(d.f[requiredStringFields[i]])}

\* C9: a save of an Event with one of the eleven string fields missing or
\* blank fails with an error naming the first such field; otherwise an empty
\* agenda fails with the agenda message, otherwise empty tags fail with the
\* tags message; these checks come before any normalization (the document is
\* left as it was); and an Event with all of that in order and a parseable
\* date and time saves successfully.
C9_ValidationOrder ==
    lastSave.done =>
        LET d == lastSave.before
            bad == BlankFields(d)
        IN  IF bad # {}
            THEN /\ ~lastSave.ok
                 /\ NamesField(lastSave.error,
                        requiredStringFields[CHOOSE i \in bad : \A j \in bad : i <= j])
                 /\ lastSave.after = d
            ELSE IF Len(d.agenda) = 0
            THEN /\ ~lastSave.ok
                 /\ SaysList(lastSave.error, "agenda", "Agenda must contain at least one item.")
                 /\ lastSave.after = d
            ELSE IF Len(d.tags) = 0
            THEN /\ ~lastSave.ok
                 /\ SaysList(lastSave.error, "tags", "Tags must contain at least one item.")
                 /\ lastSave.after = d
            ELSE (DateParse(d.f["date"]).valid /\ normalizeTime(d.f["time"]) # Null)
                    => lastSave.ok

----------------------------------------------------------------------------
(* Claims about saves of Events and Bookings, checked under SpecDb *)

\* C3: a Booking save with a well-formed email and an eventId goes to the
\* existence check; when no Event of that id is stored at the check the save
\* fails with 'Referenced event does not exist.' and no Booking is written,
\* and when the Event is stored at the check the hook lets the save proceed.
C3_ExistenceCheck ==
    \A b \in BookingIds :
        /\ (bsave[b].pc # "idle" /\ EmailMatch(bsave[b].email)
                /\ bsave[b].eventId # NoEventId)
            => (bsave[b].pc = "checking" \/ bsave[b].seen # "none"
                    \/ bsave[b].error = PlainError("query failed"))
        /\ bsave[b].seen = "no" =>
            /\ bsave[b].pc = "failed"
            /\ bsave[b].error = PlainError("Referenced event does not exist.")
            /\ bookings[b] = Absent
        /\ bsave[b].seen = "yes" =>
            /\ bsave[b].pc \in {"writing", "saved"}
            /\ bsave[b].error = NoError

\* one save was refused because its Event was not stored, another was let
\* through and written
C3_Witness ==
    \E a, b \in BookingIds :
        /\ bsave[a].seen = "no" /\ bsave[a].pc = "failed"
        /\ bsave[b].seen = "yes" /\ bsave[b].pc = "saved" /\ bookings[b] # Absent

SaveFailedInStep ==
    \/ lastSave'.done /\ ~lastSave'.ok
    \/ \E b \in BookingIds : bsave[b].pc # "failed" /\ bsave'[b].pc = "failed"

\* C6: a save that fails, of an Event or of a Booking and for whatever
\* reason, leaves both persisted collections as they were.
C6_FailedSaveWritesNothing ==
    [][SaveFailedInStep => (events' = events /\ bookings' = bookings)]_vars

\* an Event save has just failed after the hook had changed the in-memory
\* document, with an Event stored and a Booking save failed as well
C6_Witness ==
    /\ lastSave.done /\ ~lastSave.ok
    /\ lastSave.after.f # lastSave.before.f
    /\ \E e \in EventIds : Exists(events, e)
    /\ \E b \in BookingIds : bsave[b].pc = "failed"

\* C10: the existence check is advisory: a Booking is written whenever its
\* own check has passed, whatever has happened to the Event since and
\* whatever other saves are doing; a stored Booking vouches only for that
\* earlier check.
C10_CheckIsAdvisory ==
    \A b \in BookingIds :
        /\ bsave[b].pc = "writing" => ENABLED BookingWrite(b)
        /\ bookings[b] # Absent => bsave[b].seen = "yes"

\* two Bookings for the same Event are both stored, written after the Event
\* was deleted
C10_Witness ==
    \E a, b \in BookingIds :
        /\ a # b
        /\ bookings[a] # Absent /\ bookings[b] # Absent
        /\ bookings[a].eventId = bookings[b].eventId
        /\ bsave[a].dangling /\ bsave[b].dangling
        /\ ~Exists(events, bookings[a].eventId)

====
